---- MODULE Spec2Model ----
(***************************************************************************)
(* Bakery Management System (src/main.py): the BakeryManager data manager  *)
(* with its four in-memory collections and four JSON files, and the form   *)
(* handlers of BakeryGUI that mutate them.                                 *)
(*                                                                         *)
(* Numbers: the forms parse quantities with int()/float(); the model keeps *)
(* the integral values (texts are parsed through IntText below) and, where *)
(* a form uses float(), the value NaN that float("nan") gives (FloatText). *)
(* Instances: `other' holds a second running instance of the program, or   *)
(* Nobody when there is one instance.                                      *)
(* Clock: `now' numbers, in order, the clock seconds at which the program  *)
(* runs; Order.__init__ reads it for both the order_id (strftime, second   *)
(* resolution) and the timestamp. The calendar (year, month, isocalendar)  *)
(* places second t on the Monday of ISO week 2 of the year 2025 + t.       *)
(***************************************************************************)
EXTENDS Integers, Sequences, FiniteSets, TLC

VARIABLES ingredients, products, orders, staff, disk, now, faults, last, other

vars == <<ingredients, products, orders, staff, disk, now, faults, last, other>>

mem == <<ingredients, products, orders, staff>>

(* ---------------------------- bounds ----------------------------------- *)
MaxIngredients == 2
MaxProducts == 2
MaxOrders == 2
MaxStaff == 2
MaxQty == 1
MaxItemQty == 2
MaxTotal == 4
MaxClock == 1
MaxFailures == 1
MaxEntities == 3
SysMaxEntities == 2

(* ---------------------------- helpers ---------------------------------- *)
RECURSIVE Sum(_, _)
Sum(f, S) == IF S = {} THEN 0
             ELSE LET x == CHOOSE y \in S : TRUE IN f[x] + Sum(f, S \ {x})

RemoveAt(s, i) == [j \in 1..(Len(s) - 1) |-> IF j < i THEN s[j] ELSE s[j + 1]]

\* index of the first element of s named n, 0 when there is none: next((x for x in s if x.name == n), None)
FirstNamed(s, n) ==
    IF \E i \in 1..Len(s) : s[i].name = n
    THEN CHOOSE i \in 1..Len(s) : s[i].name = n /\ \A j \in 1..(i - 1) : s[j].name # n
    ELSE 0

\* mutant of FirstOrder: the last order with the given order_id
FirstOrder_last(s, id) ==
    IF \E i \in 1..Len(s) : s[i].order_id = id
    THEN CHOOSE i \in 1..Len(s) : s[i].order_id = id /\ \A j \in (i + 1)..Len(s) : s[j].order_id # id
    ELSE 0

\* index of the first order with the given order_id, 0 when there is none
FirstOrder(s, id) ==
    IF \E i \in 1..Len(s) : s[i].order_id = id
    THEN CHOOSE i \in 1..Len(s) : s[i].order_id = id /\ \A j \in 1..(i - 1) : s[j].order_id # id
    ELSE 0

\* texts a numeric entry can hold that int()/float() accept, with their values
IntText == ("-1" :> -1) @@ ("0" :> 0) @@ ("1" :> 1) @@ ("2" :> 2)

IsNumeric(t) == t \in DOMAIN IntText

\* float("nan"): stands for the float that is unordered with every number; the model
\* writes it as a number no quantity, price or total reaches, and every comparison
\* and operation that may meet it goes through Less, LessEq, Add, Sub and Mul
NaN == -99

\* texts float() accepts, with their values
FloatText == IntText @@ ("nan" :> NaN)

IsFloat(t) == t \in DOMAIN FloatText

\* a < b and a <= b on floats: False when either side is NaN
Less(a, b) == a # NaN /\ b # NaN /\ a < b

LessEq(a, b) == a # NaN /\ b # NaN /\ a <= b

\* a + b, a - b and a * b on floats: NaN when either side is NaN
Add(a, b) == IF a = NaN \/ b = NaN THEN NaN ELSE a + b

Sub(a, b) == IF a = NaN \/ b = NaN THEN NaN ELSE a - b

Mul(a, b) == IF a = NaN \/ b = NaN THEN NaN ELSE a * b

(* ---------------------------- data classes ----------------------------- *)
Ingredient(name, quantity, unit, reorder_level) ==
    [name |-> name, quantity |-> quantity, unit |-> unit, reorder_level |-> reorder_level]

Product(name, price, recipe, quantity) ==
    [name |-> name, price |-> price, recipe |-> recipe, quantity |-> quantity]

\* strftime("%Y%m%d%H%M%S"): one string per clock second
strftime(t) == ToString(t)

\* datetime.isoformat and datetime.fromisoformat
isoformat(t) == "T" \o ToString(t)

fromisoformat(s) == CHOOSE t \in 0..MaxClock : isoformat(t) = s

\* datetime.year, datetime.month, datetime.isocalendar()[1] and datetime.date() of
\* clock second t: the Monday of ISO week 2, in January, of the year 2025 + t
year(t) == 2025 + t

month(t) == 1

isocalendar_week(t) == 2

date(t) == <<year(t), isocalendar_week(t), 1>>

\* mutant of Order: an order that is not loaded from a file starts as "New"
Order_new(customer_name, items, order_id, total, status, timestamp, clock) ==
    [order_id |-> IF order_id # "" THEN order_id ELSE strftime(clock),
     customer_name |-> customer_name,
     items |-> items,
     total |-> total,
     status |-> IF order_id = "" THEN "New" ELSE status,
     timestamp |-> IF timestamp # "" THEN fromisoformat(timestamp) ELSE clock]

\* Order.__init__: a falsy order_id or timestamp is replaced by the clock
Order(customer_name, items, order_id, total, status, timestamp, clock) ==
    [order_id |-> IF order_id # "" THEN order_id ELSE strftime(clock),
     customer_name |-> customer_name,
     items |-> items,
     total |-> total,
     status |-> status,
     timestamp |-> IF timestamp # "" THEN fromisoformat(timestamp) ELSE clock]

Staff(name, role, shifts) == [name |-> name, role |-> role, shifts |-> shifts]

Ingredient_to_dict(i) ==
    [name |-> i.name, quantity |-> i.quantity, unit |-> i.unit, reorder_level |-> i.reorder_level]

Product_to_dict(p) ==
    [name |-> p.name, price |-> p.price, recipe |-> p.recipe, quantity |-> p.quantity]

Order_to_dict(o) ==
    [order_id |-> o.order_id, customer_name |-> o.customer_name, items |-> o.items,
     total |-> o.total, status |-> o.status, timestamp |-> isoformat(o.timestamp)]

Staff_to_dict(s) == [name |-> s.name, role |-> s.role, shifts |-> s.shifts]

(* ---------------------------- persistence ------------------------------ *)
\* a file on disk: absent, not valid JSON, or a JSON list of dicts
Missing == [state |-> "missing", data |-> <<>>]

Corrupt == [state |-> "corrupt", data |-> <<>>]

Json(data) == [state |-> "ok", data |-> data]

\* what json.dump writes for each file: [x.to_dict() for x in collection]
Dump(m) ==
    <<Json([i \in 1..Len(m[1]) |-> Ingredient_to_dict(m[1][i])]),
      Json([i \in 1..Len(m[2]) |-> Product_to_dict(m[2][i])]),
      Json([i \in 1..Len(m[3]) |-> Order_to_dict(m[3][i])]),
      Json([i \in 1..Len(m[4]) |-> Staff_to_dict(m[4][i])])>>

\* mutant of load_data: an order is built from its customer and items alone, so its
\* order_id and timestamp are taken from the clock again
load_data_regenerating(file, k, clock) ==
    IF file.state # "ok" THEN <<>>
    ELSE [i \in 1..Len(file.data) |->
            LET d == file.data[i] IN
            CASE k = 1 -> Ingredient(d.name, d.quantity, d.unit, d.reorder_level)
              [] k = 2 -> Product(d.name, d.price, d.recipe, d.quantity)
              [] k = 3 -> Order(d.customer_name, d.items, "", d.total, d.status, "", clock)
              [] k = 4 -> Staff(d.name, d.role, d.shifts)]

\* load_data(file, cls): [] when the file is missing or not valid JSON, else cls(**item) for each item
load_data(file, k, clock) ==
    IF file.state # "ok" THEN <<>>
    ELSE [i \in 1..Len(file.data) |->
            LET d == file.data[i] IN
            CASE k = 1 -> Ingredient(d.name, d.quantity, d.unit, d.reorder_level)
              [] k = 2 -> Product(d.name, d.price, d.recipe, d.quantity)
              [] k = 3 -> Order(d.customer_name, d.items, d.order_id, d.total, d.status, d.timestamp, clock)
              [] k = 4 -> Staff(d.name, d.role, d.shifts)]

\* outcomes of one save_data call: every file written, or an OSError while file `at' is
\* opened (file untouched) or while it is written (file left truncated)
SaveOutcomes ==
    {[ok |-> TRUE, at |-> 0, truncated |-> FALSE]}
    \cup {[ok |-> FALSE, at |-> k, truncated |-> t] : k \in 1..4, t \in BOOLEAN}

\* mutant of save_data: staff.json is not among the files written
save_data_three(m, d, out) ==
    [k \in 1..4 |->
        IF k = 4 THEN d[k]
        ELSE IF out.ok \/ k < out.at THEN Dump(m)[k]
        ELSE IF k = out.at /\ out.truncated THEN Corrupt
        ELSE d[k]]

\* save_data: the four files are rewritten one after another from memory
save_data(m, d, out) ==
    [k \in 1..4 |->
        IF out.ok \/ k < out.at THEN Dump(m)[k]
        ELSE IF k = out.at /\ out.truncated THEN Corrupt
        ELSE d[k]]

(* ---------------------------- BakeryManager ---------------------------- *)
\* add_ingredient: append, then save_data (applied by the handler's Commit)
add_ingredient(ings, name, quantity, unit, reorder_level) ==
    Append(ings, Ingredient(name, quantity, unit, reorder_level))

\* mutant of restock_ingredient: every ingredient with that name is restocked
restock_ingredient_every(ings, name, quantity) ==
    IF FirstNamed(ings, name) = 0 THEN [ret |-> FALSE, ingredients |-> ings]
    ELSE [ret |-> TRUE,
          ingredients |-> [i \in 1..Len(ings) |->
                             IF ings[i].name = name
                             THEN [ings[i] EXCEPT !.quantity = @ + quantity]
                             ELSE ings[i]]]

\* restock_ingredient: the first ingredient with that name gets quantity += quantity
restock_ingredient(ings, name, quantity) ==
    LET i == FirstNamed(ings, name) IN
    IF i = 0 THEN [ret |-> FALSE, ingredients |-> ings]
    ELSE [ret |-> TRUE,
          ingredients |-> [ings EXCEPT ![i].quantity = @ + quantity]]

\* mutant of check_low_stock: an ingredient at its reorder level is reported too
check_low_stock_at_level(ings) == SelectSeq(ings, LAMBDA ing : ing.quantity <= ing.reorder_level)

\* check_low_stock: [ing for ing in self.ingredients if ing.quantity < ing.reorder_level]
check_low_stock(ings) == SelectSeq(ings, LAMBDA ing : ing.quantity < ing.reorder_level)

add_product(prods, name, price, recipe, quantity) ==
    Append(prods, Product(name, price, recipe, quantity))

\* mutant of get_product_price: the price of the last product with that name
get_product_price_last(prods, product_name) ==
    LET S == {i \in 1..Len(prods) : prods[i].name = product_name} IN
    IF S = {} THEN 0 ELSE prods[CHOOSE i \in S : \A j \in S : j <= i].price

\* get_product_price: price of the first product with that name, 0 when there is none
get_product_price(prods, product_name) ==
    LET i == FirstNamed(prods, product_name) IN
    IF i = 0 THEN 0 ELSE prods[i].price

\* create_order, first loop: every item names a product whose first match has enough stock
order_accepted(prods, items) ==
    \A product_name \in DOMAIN items :
        LET i == FirstNamed(prods, product_name) IN
        ~(i = 0 \/ Less(prods[i].quantity, items[product_name]))

\* mutant of deduct: every product of an ordered name is deducted, not only the first
deduct_every(prods, items) ==
    [i \in 1..Len(prods) |->
        IF prods[i].name \in DOMAIN items
        THEN [prods[i] EXCEPT !.quantity = @ - items[prods[i].name]]
        ELSE prods[i]]

\* create_order, second loop: product.quantity -= qty on the first product of each name
deduct(prods, items) ==
    [i \in 1..Len(prods) |->
        IF prods[i].name \in DOMAIN items /\ FirstNamed(prods, prods[i].name) = i
        THEN [prods[i] EXCEPT !.quantity = Sub(@, items[prods[i].name])]
        ELSE prods[i]]

\* mutant of create_order: one loop checks and deducts item by item, so the items before
\* the first one that cannot be met are already deducted when False is returned
create_order_eager(prods, ords, customer_name, items, clock) ==
    LET met == {n \in DOMAIN items :
                   LET i == FirstNamed(prods, n) IN i # 0 /\ prods[i].quantity >= items[n]}
        deducted == deduct(prods, [n \in met |-> items[n]])
        order == Order(customer_name, items, "", 0, "Pending", "", clock)
        total == Sum([n \in DOMAIN items |-> get_product_price(deducted, n) * items[n]],
                     DOMAIN items)
    IN IF met # DOMAIN items
       THEN [ret |-> FALSE, products |-> deducted, orders |-> ords]
       ELSE [ret |-> TRUE,
             products |-> deducted,
             orders |-> Append(ords, [order EXCEPT !.total = total])]

\* create_order: all-or-nothing check, deduction, then the new Order with its total
create_order(prods, ords, customer_name, items, clock) ==
    IF ~order_accepted(prods, items)
    THEN [ret |-> FALSE, products |-> prods, orders |-> ords]
    ELSE LET deducted == deduct(prods, items)
             order == Order(customer_name, items, "", 0, "Pending", "", clock)
             total == Sum([n \in DOMAIN items |-> get_product_price(deducted, n) * items[n]],
                          DOMAIN items)
         IN [ret |-> TRUE,
             products |-> deducted,
             orders |-> Append(ords, [order EXCEPT !.total = total])]

add_staff(stf, name, role, shifts) == Append(stf, Staff(name, role, shifts))

\* mutant of existing_staff: the parsed role_id, an int, is compared with the stored strings
existing_staff_by_id(stf, roll) == FALSE

\* add_staff_window.submit: next((s for s in self.manager.staff if s.role == roll), None)
existing_staff(stf, roll) == \E i \in 1..Len(stf) : stf[i].role = roll

\* mutant of get_popular_products: only the Completed orders are counted
get_popular_products_completed(ords) ==
    LET sold == SelectSeq(ords, LAMBDA o : o.status = "Completed")
        names == UNION {DOMAIN sold[i].items : i \in 1..Len(sold)}
        count == [n \in names |->
                    Sum([i \in 1..Len(sold) |-> IF n \in DOMAIN sold[i].items THEN sold[i].items[n] ELSE 0],
                        1..Len(sold))]
        first(n) == CHOOSE i \in 1..Len(sold) : n \in DOMAIN sold[i].items
                                             /\ \A j \in 1..(i - 1) : n \notin DOMAIN sold[j].items
        before(a, b) == count[a] > count[b] \/ (count[a] = count[b] /\ first(a) < first(b))
        sorted == CHOOSE s \in [1..Cardinality(names) -> names] :
                      /\ \A i, j \in DOMAIN s : i # j => s[i] # s[j]
                      /\ \A i, j \in DOMAIN s : i < j => ~before(s[j], s[i])
    IN [i \in 1..Cardinality(names) |-> <<sorted[i], count[sorted[i]]>>]

\* get_popular_products: product_counts sums the quantity of each product name over
\* all orders; sorted(..., reverse=True) is stable, so names of equal count stay in
\* the order in which the loop first met them (the order inside one order's items is
\* not kept by the model)
get_popular_products(ords) ==
    LET names == UNION {DOMAIN ords[i].items : i \in 1..Len(ords)}
        count == [n \in names |->
                    Sum([i \in 1..Len(ords) |-> IF n \in DOMAIN ords[i].items THEN ords[i].items[n] ELSE 0],
                        1..Len(ords))]
        first(n) == CHOOSE i \in 1..Len(ords) : n \in DOMAIN ords[i].items
                                             /\ \A j \in 1..(i - 1) : n \notin DOMAIN ords[j].items
        before(a, b) == count[a] > count[b] \/ (count[a] = count[b] /\ first(a) < first(b))
        sorted == CHOOSE s \in [1..Cardinality(names) -> names] :
                      /\ \A i, j \in DOMAIN s : i # j => s[i] # s[j]
                      /\ \A i, j \in DOMAIN s : i < j => ~before(s[j], s[i])
    IN [i \in 1..Cardinality(names) |-> <<sorted[i], count[sorted[i]]>>]

\* mutant of total_sales: every order counts, whatever its status
total_sales_all(ords) ==
    Sum([i \in 1..Len(ords) |-> ords[i].total], 1..Len(ords))

\* generate_sales_report: sum(order.total for order in self.orders if order.status == "Completed")
total_sales(ords) ==
    Sum([i \in 1..Len(ords) |-> IF ords[i].status = "Completed" THEN ords[i].total ELSE 0],
        1..Len(ords))

\* generate_sales_report: the dict it returns
generate_sales_report(ords) ==
    [total_sales |-> total_sales(ords),
     total_orders |-> Len(ords),
     popular_products |-> get_popular_products(ords)]

\* BakeryGUI.earning: the four sums of the Earnings report at clock second clock
earning(ords, clock) ==
    LET completed == {i \in 1..Len(ords) : ords[i].status = "Completed"}
        total(S) == Sum([i \in 1..Len(ords) |-> ords[i].total], S)
    IN [daily |-> total({i \in completed : date(ords[i].timestamp) = date(clock)}),
        weekly |-> total({i \in completed :
                            isocalendar_week(ords[i].timestamp) = isocalendar_week(clock)}),
        monthly |-> total({i \in completed : month(ords[i].timestamp) = month(clock)}),
        total |-> total(completed)]

(* ---------------------------- state ------------------------------------ *)
Entities == Len(ingredients) + Len(products) + Len(orders) + Len(staff)

\* `last' records the handler that ran last, what its manager call returned, whether
\* save_data was reached and, as data, the items create_order was called with or the
\* list check_low_stock returned
Event(op, ret, saved, data) == [op |-> op, ret |-> ret, saved |-> saved, data |-> data]

NoData == <<>>

\* mutant of Commit: only the files of the collections the handler changed are written
Commit_own_files(m, op, ret, data) ==
    \E out \in SaveOutcomes :
        /\ out.ok \/ faults > 0
        /\ ingredients' = m[1]
        /\ products' = m[2]
        /\ orders' = m[3]
        /\ staff' = m[4]
        /\ disk' = [k \in 1..4 |-> IF m[k] # mem[k] THEN save_data(m, disk, out)[k] ELSE disk[k]]
        /\ faults' = IF out.ok THEN faults ELSE faults - 1
        /\ last' = Event(op, IF out.ok THEN ret ELSE "raised", IF out.ok THEN "ok" ELSE "failed", data)
        /\ UNCHANGED <<now, other>>

\* mutant of Commit: a save that fails sets the memory back to what it was
Commit_rollback(m, op, ret, data) ==
    \E out \in SaveOutcomes :
        /\ out.ok \/ faults > 0
        /\ ingredients' = IF out.ok THEN m[1] ELSE ingredients
        /\ products' = IF out.ok THEN m[2] ELSE products
        /\ orders' = IF out.ok THEN m[3] ELSE orders
        /\ staff' = IF out.ok THEN m[4] ELSE staff
        /\ disk' = save_data(m, disk, out)
        /\ faults' = IF out.ok THEN faults ELSE faults - 1
        /\ last' = Event(op, IF out.ok THEN ret ELSE "raised", IF out.ok THEN "ok" ELSE "failed", data)
        /\ UNCHANGED <<now, other>>

\* a handler that left memory as m and called save_data; an OSError escapes the handler
Commit(m, op, ret, data) ==
    \E out \in SaveOutcomes :
        /\ out.ok \/ faults > 0
        /\ ingredients' = m[1]
        /\ products' = m[2]
        /\ orders' = m[3]
        /\ staff' = m[4]
        /\ disk' = save_data(m, disk, out)
        /\ faults' = IF out.ok THEN faults ELSE faults - 1
        /\ last' = Event(op, IF out.ok THEN ret ELSE "raised", IF out.ok THEN "ok" ELSE "failed", data)
        /\ UNCHANGED <<now, other>>

\* a handler that left memory as m and returned without reaching save_data
Return(m, op, ret, data) ==
    /\ ingredients' = m[1]
    /\ products' = m[2]
    /\ orders' = m[3]
    /\ staff' = m[4]
    /\ last' = Event(op, ret, "none", data)
    /\ UNCHANGED <<disk, now, faults, other>>

(* ---------------------------- form inputs ------------------------------ *)
\* rows of the Add Product form: (ingredient entry, quantity entry)
ProductRows ==
    {<<>>,
     <<<<"flour", "1">>>>,
     <<<<"flour", "1">>, <<"", "0">>>>,
     <<<<"flour", "1">>, <<"", "">>>>,
     <<<<"flour", "abc">>>>,
     <<<<"flour", "1">>, <<"", "abc">>>>}

\* (name entry, price entry) pairs typed into the Add Product form
ProductFields == {<<"", "1">>, <<"bread", "">>, <<"bread", "1">>, <<"bread", "2">>, <<"cake", "2">>}

\* rows of the New Order form: (product entry, quantity entry)
OrderRow == {"bread", "cake"} \X {"1", "2"}

OrderRows ==
    {<<>>, <<<<"", "1">>>>, <<<<"bread", "">>>>, <<<<"bread", "abc">>>>}
    \cup {<<r>> : r \in OrderRow}
    \cup {<<r1, r2>> : r1 \in OrderRow, r2 \in {r \in OrderRow : r[1] = "cake" \/ r[2] = "1"}}

\* (order id entry, product entry, quantity entry) typed into the Update Order form
UpdateFields ==
    ({strftime(t) : t \in 0..MaxClock} \X {"bread", "cake"} \X {"1"})
    \cup {<<"", "bread", "1">>, <<strftime(0), "", "1">>, <<strftime(0), "bread", "">>,
          <<strftime(0), "bread", "abc">>, <<strftime(0), "bread", "0">>}

\* entries of the Update Order form with the texts float() accepts, "nan" among them
UpdateFieldsFloat ==
    ({strftime(0)} \X {"bread"} \X {"1", "nan"})
    \cup {<<"", "bread", "1">>, <<strftime(0), "", "1">>, <<strftime(0), "bread", "">>,
          <<strftime(0), "bread", "abc">>, <<strftime(0), "bread", "0">>,
          <<strftime(0), "bread", "-1">>, <<strftime(1), "bread", "1">>,
          <<strftime(0), "cake", "1">>}

\* rows of the New Order form: one row for one product
OrderRowsOne == {<<<<"bread", "1">>>>, <<<<"cake", "1">>>>}

\* rows of the New Order form with the quantity texts int() accepts, signed ones among them
OrderRowsSigned == {<<<<"bread", q>>>> : q \in {"-1", "0", "1"}}

\* shift.strip() for shift in shifts_input.split(',') if shift.strip()
SplitShifts == ("" :> <<>>) @@ ("," :> <<>>) @@ ("day" :> <<"day">>)

\* the dict a form builds from its rows: rows with both entries filled, later rows win
RECURSIVE RowDict(_)
RowDict(rows) ==
    IF rows = <<>> THEN <<>>
    ELSE LET init == RowDict(SubSeq(rows, 1, Len(rows) - 1))
             r == rows[Len(rows)]
         IN IF r[1] # "" /\ r[2] # ""
            THEN [k \in DOMAIN init \cup {r[1]} |-> IF k = r[1] THEN IntText[r[2]] ELSE init[k]]
            ELSE init

\* int()/float() raises ValueError on some row that has both entries filled
RowsRaise(rows) == \E i \in 1..Len(rows) : rows[i][1] # "" /\ rows[i][2] # "" /\ ~IsNumeric(rows[i][2])

(* ---------------------------- inventory forms -------------------------- *)
\* add_ingredient_window.submit; an empty field or a ValueError shows a dialog and returns
add_ingredient_window_submit ==
    \E name \in {"", "flour"}, quantity \in {"", "abc", "0", "1"}, unit \in {"g"}, reorder \in {"0", "1"} :
        /\ ~(name = "" \/ quantity = "" \/ unit = "" \/ reorder = "")
        /\ IsNumeric(quantity) /\ IsNumeric(reorder)
        /\ Len(ingredients) < MaxIngredients
        /\ Commit(<<add_ingredient(ingredients, name, IntText[quantity], unit, IntText[reorder]),
                    products, orders, staff>>, "add_ingredient", "done", NoData)

\* restock_ingredient_window.submit; the event keeps the arguments of restock_ingredient
restock_ingredient_window_submit ==
    \E name \in {"", "flour", "sugar"}, quantity \in {"", "abc", "1"} :
        IF name = "" \/ quantity = "" \/ ~IsNumeric(quantity)
        THEN Return(mem, "restock_ingredient", "rejected", NoData)
        ELSE LET r == restock_ingredient(ingredients, name, IntText[quantity]) IN
             IF ~r.ret
             THEN Return(<<r.ingredients, products, orders, staff>>, "restock_ingredient", "False",
                         <<name, IntText[quantity]>>)
             ELSE /\ \A i \in 1..Len(r.ingredients) : r.ingredients[i].quantity <= MaxQty
                  /\ Commit(<<r.ingredients, products, orders, staff>>, "restock_ingredient", "True",
                            <<name, IntText[quantity]>>)

\* a call of BakeryManager.check_low_stock (no form calls it)
check_low_stock_call ==
    Return(mem, "check_low_stock", "done", check_low_stock(ingredients))

\* a call of BakeryManager.generate_sales_report (no form calls it)
generate_sales_report_call ==
    Return(mem, "generate_sales_report", "done", generate_sales_report(orders))

\* a call of BakeryManager.get_popular_products (no form calls it directly)
get_popular_products_call ==
    Return(mem, "get_popular_products", "done", get_popular_products(orders))

\* view_inventory.delete_ingredient, confirmed
delete_ingredient ==
    \E index \in 1..Len(ingredients) :
        Commit(<<RemoveAt(ingredients, index), products, orders, staff>>, "delete_ingredient", "done", NoData)

(* ---------------------------- product forms ---------------------------- *)
\* add_product_window.submit_product: the loop variable quantity_entry shadows the
\* Initial Quantity entry, so the quantity read after the loop is the last row's
submit_product ==
    \E fields \in ProductFields, quantity_entry \in {"2"}, rows \in ProductRows :
        LET name == fields[1]
            price == fields[2]
            recipe == RowDict(rows)
            quantity == IF rows = <<>> THEN quantity_entry ELSE rows[Len(rows)][2]
        IN /\ ~RowsRaise(rows)
           /\ ~(name = "" \/ DOMAIN recipe = {} \/ quantity = "")
           /\ IsNumeric(price) /\ IsNumeric(quantity)
           /\ Len(products) < MaxProducts
           /\ Commit(<<ingredients,
                       add_product(products, name, IntText[price], recipe, IntText[quantity]),
                       orders, staff>>, "add_product", "done", NoData)

\* mutant of delete_product: the totals of the orders are computed again from the
\* products that remain
delete_product_repriced ==
    \E i \in 1..Len(products) :
        LET product_name == products[i].name
            remaining == SelectSeq(products, LAMBDA p : p.name # product_name)
        IN Commit(<<ingredients, remaining,
                    [o \in 1..Len(orders) |->
                        [orders[o] EXCEPT !.total =
                            Sum([n \in DOMAIN orders[o].items |->
                                    get_product_price(remaining, n) * orders[o].items[n]],
                                DOMAIN orders[o].items)]],
                    staff>>, "delete_product", "done", NoData)

\* view_products.delete_product, confirmed: every product with that name is removed
delete_product ==
    \E i \in 1..Len(products) :
        LET product_name == products[i].name IN
        Commit(<<ingredients, SelectSeq(products, LAMBDA p : p.name # product_name),
                 orders, staff>>, "delete_product", "done", NoData)

\* product_status_window.submit
product_status_window_submit ==
    \E product_name \in {"", "bread", "cake"}, quantity \in {"", "abc", "1"} :
        LET i == FirstNamed(products, product_name) IN
        /\ ~(product_name = "" \/ quantity = "")
        /\ IsNumeric(quantity)
        /\ i # 0
        /\ Add(products[i].quantity, IntText[quantity]) <= MaxQty
        /\ Commit(<<ingredients, [products EXCEPT ![i].quantity = Add(@, IntText[quantity])],
                    orders, staff>>, "product_status", "done", NoData)

(* ---------------------------- order forms ------------------------------ *)
\* create_order_window.submit_order
submit_order(Rows) ==
    \E customer \in {"", "bob"}, rows \in Rows :
        IF RowsRaise(rows)
        THEN Return(mem, "submit_order", "rejected", NoData)
        ELSE LET items == RowDict(rows) IN
             IF customer = "" \/ DOMAIN items = {}
             THEN Return(mem, "submit_order", "rejected", NoData)
             ELSE IF \E n \in DOMAIN items : FirstNamed(products, n) = 0
             THEN Return(mem, "submit_order", "rejected", NoData)
             ELSE LET r == create_order(products, orders, customer, items, now) IN
                  IF ~r.ret
                  THEN Return(<<ingredients, r.products, r.orders, staff>>, "create_order", "False", items)
                  ELSE /\ Len(orders) < MaxOrders
                       /\ \A i \in 1..Len(r.products) : r.products[i].quantity <= MaxQty
                       /\ Commit(<<ingredients, r.products, r.orders, staff>>, "create_order", "True", items)

\* view_orders.on_tree_click on the delete column of row i, confirmed: the first
\* order with the row's order_id is deleted
view_orders_on_tree_click ==
    \E i \in 1..Len(orders) :
        LET idx == FirstOrder(orders, orders[i].order_id) IN
        Commit(<<ingredients, products, RemoveAt(orders, idx), staff>>, "delete_order", "done", NoData)

\* update_order_status_window.submit on the entries `Fields'; with `detail' the event
\* records the reason of a rejection and the entries, else only that it was rejected
update_order_status_window_submit(Fields, detail) ==
    \E fields \in Fields :
        LET order_id == fields[1]
            product_name == fields[2]
            quantity == fields[3]
            data == IF detail THEN fields ELSE NoData
            rejected(reason) == Return(mem, "update_order", IF detail THEN reason ELSE "rejected", data)
        IN
        IF order_id = "" \/ product_name = "" \/ quantity = ""
        THEN rejected("empty field")
        ELSE IF ~IsFloat(quantity) \/ LessEq(FloatText[quantity], 0)
        THEN rejected("invalid quantity")
        ELSE LET o == FirstOrder(orders, order_id)
                 p == FirstNamed(products, product_name)
                 q == FloatText[quantity]
             IN IF o = 0
                THEN rejected("order not found")
                ELSE IF p = 0
                THEN rejected("product not found")
                ELSE IF Less(products[p].quantity, q)
                THEN rejected("insufficient stock")
                ELSE LET old == orders[o].items
                         items == [k \in DOMAIN old \cup {product_name} |->
                                     IF k = product_name
                                     THEN (IF k \in DOMAIN old THEN Add(old[k], q) ELSE q)
                                     ELSE old[k]]
                         total == Add(orders[o].total, Mul(products[p].price, q))
                     IN /\ items[product_name] <= MaxItemQty
                        /\ total <= MaxTotal
                        /\ Commit(<<ingredients,
                                    [products EXCEPT ![p].quantity = Sub(@, q)],
                                    [orders EXCEPT ![o].items = items,
                                                   ![o].total = total,
                                                   ![o].status = "Updated"],
                                    staff>>, "update_order", "done", data)

(* ---------------------------- staff forms ------------------------------ *)
\* add_staff_window.submit: the role must parse as an integer, and is stored as typed
add_staff_window_submit ==
    \E name \in {"", "ann"}, roll \in {"", "x", "1", "2"}, shifts_input \in DOMAIN SplitShifts :
        IF name = "" \/ roll = "" \/ ~IsNumeric(roll) \/ shifts_input = ""
        THEN Return(mem, "add_staff", "rejected", NoData)
        ELSE IF existing_staff(staff, roll)
        THEN Return(mem, "add_staff", "role exists", NoData)
        ELSE IF SplitShifts[shifts_input] = <<>>
        THEN Return(mem, "add_staff", "rejected", NoData)
        ELSE /\ Len(staff) < MaxStaff
             /\ Commit(<<ingredients, products, orders,
                         add_staff(staff, name, roll, SplitShifts[shifts_input])>>,
                       "add_staff", "done", NoData)

\* view_staff.delete_staff, confirmed
delete_staff ==
    \E index \in 1..Len(staff) :
        Commit(<<ingredients, products, orders, RemoveAt(staff, index)>>, "delete_staff", "done", NoData)

(* ---------------------------- sales report views ----------------------- *)
\* rows of the Pending Orders view: one per order with status Pending, tagged with its id
PendingRows == {j \in 1..Len(orders) : orders[j].status = "Pending"}

\* pending_orders.on_tree_click: self.selected_orders after the rows in ticked were clicked
SelectedOrders(ticked) == {orders[i].order_id : i \in ticked}

\* mutant of mark_orders_complete: a sold order consumes the ingredients its products'
\* recipes name
mark_orders_complete_consuming ==
    \E ticked \in (SUBSET PendingRows) \ {{}} :
        LET selected_orders == SelectedOrders(ticked)
            sold == {i \in 1..Len(orders) : orders[i].order_id \in selected_orders}
            used(name) == \E i \in sold : \E n \in DOMAIN orders[i].items :
                             LET p == FirstNamed(products, n) IN
                             p # 0 /\ name \in DOMAIN products[p].recipe
        IN Commit(<<[k \in 1..Len(ingredients) |->
                        IF used(ingredients[k].name)
                        THEN [ingredients[k] EXCEPT !.quantity = @ - 1]
                        ELSE ingredients[k]],
                    products,
                    [i \in 1..Len(orders) |->
                        IF i \in sold THEN [orders[i] EXCEPT !.status = "Completed"] ELSE orders[i]],
                    staff>>, "mark_orders_complete", "done",
                 [i \in 1..Len(orders) |-> i \in ticked])

\* pending_orders.mark_orders_complete: the button is packed only while some row is ticked;
\* every order whose id is in self.selected_orders is marked. The event keeps, for each
\* order, whether its row was ticked
mark_orders_complete ==
    \E ticked \in (SUBSET PendingRows) \ {{}} :
        LET selected_orders == SelectedOrders(ticked) IN
        Commit(<<ingredients, products,
                 [i \in 1..Len(orders) |->
                    IF orders[i].order_id \in selected_orders
                    THEN [orders[i] EXCEPT !.status = "Completed"]
                    ELSE orders[i]],
                 staff>>, "mark_orders_complete", "done",
                 [i \in 1..Len(orders) |-> i \in ticked])

\* sold_items.on_tree_click on the delete column of the row (order i, product_name),
\* confirmed: the item is removed from the first order with the row's order_id
sold_items_on_tree_click ==
    \E i \in {j \in 1..Len(orders) : orders[j].status = "Completed"} :
        \E product_name \in DOMAIN orders[i].items :
            LET o == FirstOrder(orders, orders[i].order_id) IN
            /\ product_name \in DOMAIN orders[o].items
            /\ Commit(<<ingredients, products,
                        [orders EXCEPT ![o].items = [k \in DOMAIN @ \ {product_name} |-> @[k]]],
                        staff>>, "delete_sold_item", "done", NoData)

\* the Earnings view is opened
earning_call ==
    Return(mem, "earning", "done", earning(orders, now))

(* ---------------------------- environment ------------------------------ *)
\* the wall clock advances
Tick ==
    /\ now < MaxClock
    /\ now' = now + 1
    /\ UNCHANGED <<ingredients, products, orders, staff, disk, faults, last, other>>

\* mutant of BakeryManager_init: one try block around the four loads, so a file that
\* cannot be read leaves every collection empty
BakeryManager_init_together ==
    LET readable == \A k \in 1..4 : disk[k].state = "ok" IN
    /\ ingredients' = IF readable THEN load_data(disk[1], 1, now) ELSE <<>>
    /\ products' = IF readable THEN load_data(disk[2], 2, now) ELSE <<>>
    /\ orders' = IF readable THEN load_data(disk[3], 3, now) ELSE <<>>
    /\ staff' = IF readable THEN load_data(disk[4], 4, now) ELSE <<>>
    /\ last' = Event("start", "done", "none", NoData)
    /\ UNCHANGED <<disk, now, faults, other>>

\* BakeryManager.__init__: the application is started again and loads the four files
BakeryManager_init ==
    /\ ingredients' = load_data(disk[1], 1, now)
    /\ products' = load_data(disk[2], 2, now)
    /\ orders' = load_data(disk[3], 3, now)
    /\ staff' = load_data(disk[4], 4, now)
    /\ last' = Event("start", "done", "none", NoData)
    /\ UNCHANGED <<disk, now, faults, other>>

\* files left by an earlier run
SampleFiles ==
    <<Json(<<Ingredient_to_dict(Ingredient("flour", 0, "g", 1))>>),
      Json(<<Product_to_dict(Product("bread", 2, ("flour" :> 1), 0))>>),
      Json(<<Order_to_dict([order_id |-> strftime(0), customer_name |-> "bob",
                            items |-> ("bread" :> 1), total |-> 2, status |-> "Pending",
                            timestamp |-> 0])>>),
      Json(<<Staff_to_dict(Staff("ann", "1", <<"day">>))>>)>>

\* no second instance of the program is running
Nobody == <<>>

\* the state after start-up from the files d, with f save failures still to come
Loaded(d, f) ==
    /\ disk = d
    /\ now = 0
    /\ faults = f
    /\ ingredients = load_data(d[1], 1, 0)
    /\ products = load_data(d[2], 2, 0)
    /\ orders = load_data(d[3], 3, 0)
    /\ staff = load_data(d[4], 4, 0)
    /\ last = Event("start", "done", "none", NoData)
    /\ other = Nobody

\* no file yet
FreshDisk == [k \in 1..4 |-> Missing]

\* the files of an earlier run, of which one may be lost or unreadable
UsedDisks ==
    {[k \in 1..4 |-> IF k = bad THEN c ELSE SampleFiles[k]] : bad \in 0..4, c \in {Missing, Corrupt}}

\* the model's size: records of all kinds, and products plus orders
Room == Entities < SysMaxEntities

OrderRoom == Len(products) + Len(orders) < SysMaxEntities

\* the whole application, on a disk whose writes may fail
Init == \E d \in {FreshDisk} \cup UsedDisks : Loaded(d, MaxFailures)

Next ==
    \/ Room /\ add_ingredient_window_submit
    \/ restock_ingredient_window_submit
    \/ delete_ingredient
    \/ Room /\ submit_product
    \/ delete_product
    \/ product_status_window_submit
    \/ OrderRoom /\ submit_order(OrderRows)
    \/ view_orders_on_tree_click
    \/ update_order_status_window_submit(UpdateFields, FALSE)
    \/ Room /\ add_staff_window_submit
    \/ delete_staff
    \/ mark_orders_complete
    \/ sold_items_on_tree_click
    \/ Tick
    \/ BakeryManager_init

Spec == Init /\ [][Next]_vars

\* products and orders, from a first start on a reliable disk
InitOrders == Loaded(FreshDisk, 0)

NextOrders ==
    \/ Entities < MaxEntities /\ submit_product
    \/ delete_product
    \/ product_status_window_submit
    \/ Entities < MaxEntities /\ submit_order(OrderRows)
    \/ view_orders_on_tree_click
    \/ update_order_status_window_submit(UpdateFields, FALSE)
    \/ mark_orders_complete
    \/ sold_items_on_tree_click
    \/ Tick

SpecOrders == InitOrders /\ [][NextOrders]_vars

\* the order forms and the report calls of BakeryManager
NextReports ==
    \/ Entities < MaxEntities /\ submit_product
    \/ product_status_window_submit
    \/ Entities < MaxEntities /\ submit_order(OrderRows)
    \/ update_order_status_window_submit(UpdateFields, FALSE)
    \/ mark_orders_complete
    \/ sold_items_on_tree_click
    \/ generate_sales_report_call
    \/ get_popular_products_call

SpecReports == InitOrders /\ [][NextReports]_vars

\* the Update Order form, with the forms that make the products and orders it needs
NextUpdate ==
    \/ Entities < MaxEntities /\ submit_product
    \/ product_status_window_submit
    \/ Entities < MaxEntities /\ submit_order(OrderRowsOne)
    \/ update_order_status_window_submit(UpdateFieldsFloat, TRUE)

SpecUpdate == InitOrders /\ [][NextUpdate]_vars

\* the order forms on every quantity text that parses as an integer
NextSigned ==
    \/ Entities < MaxEntities /\ submit_product
    \/ product_status_window_submit
    \/ Entities < MaxEntities /\ submit_order(OrderRowsSigned)
    \/ update_order_status_window_submit(UpdateFields, FALSE)

SpecSigned == InitOrders /\ [][NextSigned]_vars

\* the Earnings view, with the forms that make the sales it sums and the clock
NextEarnings ==
    \/ Entities < MaxEntities /\ submit_product
    \/ product_status_window_submit
    \/ Entities < MaxEntities /\ submit_order(OrderRowsOne)
    \/ mark_orders_complete
    \/ earning_call
    \/ Tick

SpecEarnings == InitOrders /\ [][NextEarnings]_vars

\* the inventory forms
NextInventory ==
    \/ Len(ingredients) < MaxEntities /\ add_ingredient_window_submit
    \/ restock_ingredient_window_submit
    \/ check_low_stock_call
    \/ delete_ingredient
    \/ BakeryManager_init

SpecInventory == Init /\ [][NextInventory]_vars

\* the staff forms
NextStaff ==
    \/ Len(staff) < MaxEntities /\ add_staff_window_submit
    \/ delete_staff
    \/ BakeryManager_init

SpecStaff == Init /\ [][NextStaff]_vars

\* two instances of the program on the same files: the variables of the memory are
\* those of the instance that acts, `other' keeps the memory and the last event of
\* the instance that waits; no code runs when the user turns from one to the other
Switch ==
    /\ other # Nobody
    /\ ingredients' = other.mem[1]
    /\ products' = other.mem[2]
    /\ orders' = other.mem[3]
    /\ staff' = other.mem[4]
    /\ last' = other.last
    /\ other' = [mem |-> mem, last |-> last]
    /\ UNCHANGED <<disk, now, faults>>

\* both instances have loaded the same files
InitTwo ==
    \E d \in {FreshDisk} :
        /\ disk = d
        /\ now = 0
        /\ faults = 0
        /\ ingredients = load_data(d[1], 1, 0)
        /\ products = load_data(d[2], 2, 0)
        /\ orders = load_data(d[3], 3, 0)
        /\ staff = load_data(d[4], 4, 0)
        /\ last = Event("start", "done", "none", NoData)
        /\ other = [mem |-> mem, last |-> last]

NextTwo ==
    \/ Room /\ add_ingredient_window_submit
    \/ delete_ingredient
    \/ Room /\ add_staff_window_submit
    \/ delete_staff
    \/ Switch

SpecTwo == InitTwo /\ [][NextTwo]_vars

(* ======================================================================= *)
(* Claims                                                                  *)
(* ======================================================================= *)
\* the handler op ran in this step and its manager call returned ret (Tick leaves `last')
Ran(op, ret) == last'.op = op /\ last'.ret = ret /\ now' = now

\* items dicts create_order may be called with, beyond what the form lets through
AnyItems ==
    UNION {[S -> {-1, 1, 2}] : S \in {T \in SUBSET {"bread", "cake", "pie"} : Cardinality(T) <= 2}}

\* the first product named n has at least q in stock
FirstHas(prods, n, q) ==
    \E i \in 1..Len(prods) :
        /\ prods[i].name = n
        /\ \A j \in 1..(i - 1) : prods[j].name # n
        /\ prods[i].quantity >= q

\* products after, against products before: the first product of each ordered name lost
\* exactly the ordered quantity, every other product is as it was
Deducted(before, after, items) ==
    /\ Len(after) = Len(before)
    /\ \A i \in 1..Len(before) :
        IF before[i].name \in DOMAIN items /\ \A j \in 1..(i - 1) : before[j].name # before[i].name
        THEN /\ after[i].quantity = before[i].quantity - items[before[i].name]
             /\ after[i].name = before[i].name
             /\ after[i].price = before[i].price
             /\ after[i].recipe = before[i].recipe
        ELSE after[i] = before[i]

\* orders after, against orders before: exactly one order holding items was appended
Appended(before, after, items) ==
    /\ Len(after) = Len(before) + 1
    /\ SubSeq(after, 1, Len(before)) = before
    /\ after[Len(after)].items = items

\* C1 as a contract of create_order, in the current state, for every items dict
C1_Contract ==
    \A items \in AnyItems :
        LET r == create_order(products, orders, "bob", items, now) IN
        /\ r.ret = (\A n \in DOMAIN items : FirstHas(products, n, items[n]))
        /\ r.ret => Deducted(products, r.products, items) /\ Appended(orders, r.orders, items)

C2_Contract ==
    \A items \in AnyItems :
        LET r == create_order(products, orders, "bob", items, now) IN
        ~r.ret => r.products = products /\ r.orders = orders

\* C2: order creation is all-or-nothing. When create_order returns False, because an
\* item cannot be met, no product's stock has changed, no order has been added and no
\* file has been written, also when other items of the same request could be met.
C2_AllOrNothing ==
    /\ []C2_Contract
    /\ [][Ran("create_order", "False") =>
            /\ products' = products
            /\ orders' = orders
            /\ disk' = disk
            /\ last'.saved = "none"]_vars

\* C2 witness: create_order returned False for a request of which one item could be
\* met on its own and another could not
C2_Witness ==
    /\ last.op = "create_order" /\ last.ret = "False"
    /\ \E n \in DOMAIN last.data : last.data[n] > 0 /\ FirstHas(products, n, last.data[n])
    /\ \E n \in DOMAIN last.data : ~FirstHas(products, n, last.data[n])

\* the price of the product named n: that of the first product in the list with the name
PriceOf(prods, n) ==
    LET i == CHOOSE k \in 1..Len(prods) :
                 prods[k].name = n /\ \A j \in 1..(k - 1) : prods[j].name # n
    IN prods[i].price

\* sum over the items of price times quantity
RECURSIVE ItemsValue(_, _)
ItemsValue(prods, items) ==
    IF DOMAIN items = {} THEN 0
    ELSE LET n == CHOOSE m \in DOMAIN items : TRUE IN
         PriceOf(prods, n) * items[n] + ItemsValue(prods, [m \in DOMAIN items \ {n} |-> items[m]])

\* C3: an order's total is computed at creation: right after a successful create_order
\* the new order's total is the sum, over its items, of the price of the product with
\* that name times the ordered quantity, at the prices of that moment.
C3_TotalAtCreation ==
    [][Ran("create_order", "True") =>
          LET order == orders'[Len(orders')] IN
          /\ order.items = last'.data
          /\ order.total = ItemsValue(products, order.items)
          /\ order.total = ItemsValue(products', order.items)]_vars

\* C3 witness: an order for a name that two products of different prices carry, whose
\* total is the price of the first of them
C3_Witness ==
    /\ last.op = "create_order" /\ last.ret = "True"
    /\ Len(orders) = 1 /\ Len(products) = 2
    /\ products[1].name = products[2].name /\ products[1].price # products[2].price
    /\ orders[1].items = (products[1].name :> 1)
    /\ orders[1].total = products[1].price

\* C4: an order's total is never recomputed by a product operation: adding a product,
\* deleting a product (and so deleting one and adding it again under the same name at
\* another price) and adding stock leave every existing order, its total included, as
\* it was.
C4_TotalKept ==
    [][last'.op \in {"add_product", "delete_product", "product_status"} /\ now' = now =>
          /\ Len(orders') = Len(orders)
          /\ \A i \in 1..Len(orders) : orders'[i].total = orders[i].total
          /\ orders' = orders]_vars

\* C4 witness: a product was added again under the name an existing order holds, at a
\* price at which the order's items would come to a different total
C4_Witness ==
    /\ last.op = "add_product" /\ last.ret = "done"
    /\ Len(orders) = 1 /\ Len(products) = 1
    /\ DOMAIN orders[1].items = {products[1].name}
    /\ orders[1].total # products[1].price * orders[1].items[products[1].name]

\* C5: ingredient stock is never decremented by an order. Creating an order, updating
\* one and marking orders Completed leave every ingredient as it was, whatever the
\* recipes say; the list of ingredients only changes in a step of add ingredient,
\* restock or delete ingredient (or when a newly started program loads the files).
C5_IngredientsKept ==
    /\ [][last'.op \in {"create_order", "submit_order", "update_order", "mark_orders_complete",
                        "delete_order", "delete_sold_item"} /\ now' = now
            => ingredients' = ingredients]_vars
    /\ [][ingredients' # ingredients =>
            last'.op \in {"add_ingredient", "restock_ingredient", "delete_ingredient", "start"}]_vars

\* C5 witness: an order went through for a product whose recipe names an ingredient
\* that is in the inventory
C5_Witness ==
    /\ last.op = "create_order" /\ last.ret = "True"
    /\ \E n \in DOMAIN last.data : \E p \in 1..Len(products) : \E k \in 1..Len(ingredients) :
          /\ products[p].name = n
          /\ ingredients[k].name \in DOMAIN products[p].recipe
          /\ products[p].recipe[ingredients[k].name] > 0

\* positions of the ingredients whose quantity is strictly below their reorder level
LowIdx(ings) == {i \in 1..Len(ings) : ings[i].quantity < ings[i].reorder_level}

\* r lists the ingredients at the positions LowIdx, in the order of the collection
IsLowStockList(r, ings) ==
    /\ Len(r) = Cardinality(LowIdx(ings))
    /\ \A k \in 1..Len(r) :
          \E i \in LowIdx(ings) :
              /\ Cardinality({j \in LowIdx(ings) : j < i}) = k - 1
              /\ r[k] = ings[i]

\* C6 as a contract of check_low_stock, on the ingredients of the current state
C6_Contract == IsLowStockList(check_low_stock(ingredients), ingredients)

\* C6: check_low_stock returns exactly the ingredients whose quantity is strictly less
\* than their reorder level, in collection order (one whose quantity equals the level
\* is not reported), and the call changes no state.
C6_LowStock ==
    /\ []C6_Contract
    /\ [][Ran("check_low_stock", "done") =>
            /\ IsLowStockList(last'.data, ingredients)
            /\ mem' = mem
            /\ disk' = disk]_vars

\* C6 witness: of two ingredients the first is at its reorder level and the second
\* below it, and check_low_stock returned the second alone
C6_Witness ==
    /\ last.op = "check_low_stock"
    /\ Len(ingredients) = 2
    /\ ingredients[1].quantity = ingredients[1].reorder_level
    /\ ingredients[2].quantity < ingredients[2].reorder_level
    /\ last.data = <<ingredients[2]>>

Statuses == {"Pending", "Completed", "Updated"}

\* the statuses of the orders in memory and of those in a readable orders.json
C7_Statuses ==
    /\ \A i \in 1..Len(orders) : orders[i].status \in Statuses
    /\ disk[3].state = "ok" => \A i \in 1..Len(disk[3].data) : disk[3].data[i].status \in Statuses

\* C7: every order's status is one of "Pending", "Completed" and "Updated", in memory
\* and in orders.json, and an order that create_order has just made is "Pending".
C7_Status ==
    /\ []C7_Statuses
    /\ [][last'.op = "create_order" /\ last'.ret \in {"True", "raised"} /\ now' = now =>
            orders'[Len(orders')].status = "Pending"]_vars

\* C7 witness: create_order has just made an order
C7_Witness ==
    /\ last.op = "create_order" /\ last.ret = "True"
    /\ Len(orders) = 1
    /\ orders[1].status = "Pending"
    /\ orders[1].items = last.data

\* no two members of staff share a role
C8_Distinct == \A i, j \in 1..Len(staff) : i # j => staff[i].role # staff[j].role

\* C8: roles are unique at the moment a member of staff is added: a submission whose
\* role equals the role of an existing member is refused with nothing added and
\* nothing written, a member that is added brings a role nobody had, and so no two
\* members of staff share a role.
C8_RoleUnique ==
    /\ []C8_Distinct
    /\ [][/\ Ran("add_staff", "role exists") =>
                /\ staff' = staff
                /\ disk' = disk
                /\ last'.saved = "none"
          /\ last'.op = "add_staff" /\ Len(staff') > Len(staff) =>
                /\ Len(staff') = Len(staff) + 1
                /\ SubSeq(staff', 1, Len(staff)) = staff
                /\ \A i \in 1..Len(staff) : staff[i].role # staff'[Len(staff')].role]_vars

\* C8 witness: with two members of staff on the list, a submission was refused because
\* its role was taken
C8_Witness ==
    /\ last.op = "add_staff" /\ last.ret = "role exists"
    /\ Len(staff) = 2

\* what a start of the program would load from the files d
Reload(d) == <<load_data(d[1], 1, now), load_data(d[2], 2, now),
               load_data(d[3], 3, now), load_data(d[4], 4, now)>>

\* C9: every mutation is flushed: a handler that changes a collection calls save_data,
\* and when save_data does not fail each of the four files is valid JSON holding the
\* collection in memory, so that loading the files gives back the memory.
C9_Flushed ==
    /\ [][mem' # mem /\ last'.op # "start" => last'.saved \in {"ok", "failed"}]_vars
    /\ [][last'.saved = "ok" /\ now' = now =>
            /\ \A k \in 1..4 : disk'[k].state = "ok" /\ Len(disk'[k].data) = Len(mem'[k])
            /\ Reload(disk') = mem'
            /\ disk' = Dump(mem')]_vars

\* C9 witness: after a save that failed, a later handler saved and the files hold the
\* memory again
C9_Witness ==
    /\ last.saved = "ok"
    /\ faults = 0
    /\ Len(orders) = 1 /\ Len(staff) = 1
    /\ disk = Dump(mem)

\* C10, as stated: a step of add ingredient leaves products.json, orders.json and
\* staff.json as they were, also when one of them could not be read at start-up.
\* save_data rewrites all four files, so a file that was missing or unreadable, and was
\* loaded as an empty list, is overwritten with "[]".
C10_OtherFilesKept ==
    [][last'.op = "add_ingredient" /\ last'.saved = "ok" /\ now' = now =>
          \A k \in 2..4 : disk'[k] = disk[k]]_vars

\* C11 as a contract of the current state: what save_data writes, loaded by a new
\* BakeryManager, is the four collections again
C11_Contract == Reload(Dump(mem)) = mem

\* C11: save/load round trip. For every reachable memory, save_data followed by a new
\* BakeryManager gives back the four collections: the same elements in the same order
\* with equal fields, an order keeping its stored order_id and timestamp although the
\* clock has moved on; and a start from files that hold the memory leaves the memory
\* as it was.
C11_RoundTrip ==
    /\ []C11_Contract
    /\ [][last'.op = "start" /\ now' = now /\ disk = Dump(mem) => mem' = mem]_vars

\* C11 witness: the program was started again, a clock second after the order it
\* loaded was created and after the order was marked Completed and saved
C11_Witness ==
    /\ last.op = "start"
    /\ now = 1
    /\ Len(orders) = 1
    /\ orders[1].order_id = strftime(0) /\ orders[1].timestamp = 0
    /\ orders[1].status = "Completed"
    /\ Len(products) = 1 /\ Len(ingredients) = 1 /\ Len(staff) = 1
    /\ disk = Dump(mem)

\* the dict that to_dict gives for the element x of collection k
ToDict(k, x) ==
    CASE k = 1 -> Ingredient_to_dict(x)
      [] k = 2 -> Product_to_dict(x)
      [] k = 3 -> Order_to_dict(x)
      [] k = 4 -> Staff_to_dict(x)

\* collection c is what file f alone decides: empty when f is missing or is not valid
\* JSON, else one element per item of f, in order, each with the item's fields
LoadedFrom(k, c, f) ==
    IF f.state # "ok" THEN c = <<>>
    ELSE /\ Len(c) = Len(f.data)
         /\ \A i \in 1..Len(c) : ToDict(k, c[i]) = f.data[i]

\* C12: collections are loaded independently. A start-up always completes, and right
\* after it each collection is what its own file decides: empty when that file is
\* missing or is not valid JSON, the file's items otherwise, whatever the state of
\* the other three files.
C12_LoadedIndependently ==
    /\ [](last.op = "start" => \A k \in 1..4 : LoadedFrom(k, mem[k], disk[k]))
    /\ [][last'.op = "start" /\ now' = now =>
            /\ disk' = disk
            /\ \A k \in 1..4 : LoadedFrom(k, mem'[k], disk[k])]_vars

\* C12 witness: the program was started again after a save that failed had left a
\* file truncated; that collection is empty and another one is not
C12_Witness ==
    /\ last.op = "start"
    /\ faults = 0
    /\ \E k \in 1..4 : disk[k].state = "corrupt" /\ mem[k] = <<>>
    /\ \E k \in 1..4 : disk[k].state = "ok" /\ mem[k] # <<>>

\* file k holds collection k of the memory m
Holds(f, k, m) == f.state = "ok" /\ Len(f.data) = Len(m[k]) /\ load_data(f, k, now) = m[k]

\* C13: saving has no atomicity and no rollback. When save_data fails, the handler's
\* mutation stays in memory (for create_order: the stock is deducted and the order
\* appended), and the files are a mix: those written before the failing one hold the
\* new memory, the failing one is as it was or truncated, the later ones are as they
\* were.
C13_NoRollback ==
    [][last'.saved = "failed" /\ now' = now =>
          /\ mem' # mem
          /\ last'.op = "create_order" =>
                Deducted(products, products', last'.data) /\ Appended(orders, orders', last'.data)
          /\ \E at \in 1..4 :
                /\ \A k \in 1..(at - 1) : Holds(disk'[k], k, mem')
                /\ disk'[at] \in {disk[at], Corrupt}
                /\ \A k \in (at + 1)..4 : disk'[k] = disk[k]]_vars

\* C13 witness: create_order's save failed at orders.json: products.json shows the
\* deducted stock while orders.json does not contain the order that is in memory
C13_Witness ==
    /\ last.op = "create_order" /\ last.saved = "failed"
    /\ Len(orders) = 1 /\ orders[1].items = last.data
    /\ Holds(disk[2], 2, mem)
    /\ \E p \in 1..Len(products) : products[p].name \in DOMAIN last.data /\ products[p].quantity = 0
    /\ disk[3].state = "ok" /\ disk[3].data = <<>>

\* C14: there is no locking between processes. With two instances that loaded the
\* same files, a save writes all four files from the saving instance's own memory:
\* after it every file holds the saver's collection, and no file holds a collection
\* of the other instance that differs from the saver's, so what the other instance
\* had saved there is lost.
C14_LastSaverWins ==
    [][other # Nobody /\ other' = other /\ last'.saved = "ok" /\ now' = now =>
          /\ \A k \in 1..4 : Holds(disk'[k], k, mem')
          /\ \A k \in 1..4 : other.mem[k] # mem'[k] => ~Holds(disk'[k], k, other.mem)]_vars

\* C14 witness: the other instance added an ingredient and saved, then this instance,
\* which had loaded the same files, added a member of staff and saved: the ingredient
\* is in the other's memory and in no file
C14_Witness ==
    /\ other # Nobody
    /\ other.last.op = "add_ingredient" /\ other.last.saved = "ok"
    /\ last.op = "add_staff" /\ last.saved = "ok"
    /\ Len(other.mem[1]) = Len(ingredients) + 1
    /\ Len(staff) = Len(other.mem[4]) + 1
    /\ Len(disk[1].data) = Len(ingredients)
    /\ Holds(disk[4], 4, mem)

\* the sum of the totals of the Completed orders, order by order
RECURSIVE CompletedTotal(_)
CompletedTotal(ords) ==
    IF ords = <<>> THEN 0
    ELSE CompletedTotal(SubSeq(ords, 1, Len(ords) - 1))
         + (IF ords[Len(ords)].status = "Completed" THEN ords[Len(ords)].total ELSE 0)

\* report is the sales report of the orders ords
IsSalesReport(report, ords) ==
    /\ report.total_sales = CompletedTotal(ords)
    /\ report.total_orders = Len(ords)

\* C15 as a contract of generate_sales_report, on the orders of the current state
C15_Contract == IsSalesReport(generate_sales_report(orders), orders)

\* C15: sales aggregation. generate_sales_report returns total_sales equal to the sum
\* of the totals of the orders whose status is Completed (Pending and Updated orders
\* add nothing) and total_orders equal to the number of all orders; the call changes
\* no collection and no file.
C15_SalesReport ==
    /\ []C15_Contract
    /\ [][Ran("generate_sales_report", "done") =>
            /\ IsSalesReport(last'.data, orders)
            /\ mem' = mem
            /\ disk' = disk]_vars

\* C15 witness: of two orders with a total one is Completed and one is not, and the
\* report counts both orders and the sales of the first alone
C15_Witness ==
    /\ last.op = "generate_sales_report"
    /\ Len(orders) = 2
    /\ orders[1].status = "Completed" /\ orders[1].total > 0
    /\ orders[2].status # "Completed" /\ orders[2].total > 0
    /\ last.data.total_sales = orders[1].total
    /\ last.data.total_orders = 2

\* the quantity of the product named n over all the orders, order by order
RECURSIVE Ordered(_, _)
Ordered(ords, n) ==
    IF ords = <<>> THEN 0
    ELSE Ordered(SubSeq(ords, 1, Len(ords) - 1), n)
         + (IF n \in DOMAIN ords[Len(ords)].items THEN ords[Len(ords)].items[n] ELSE 0)

\* r is a list of (product, count) pairs, one per product name in the orders, each
\* with the quantity ordered over all orders, in non-increasing order of count
IsPopularList(r, ords) ==
    /\ \A i, j \in 1..Len(r) : i # j => r[i][1] # r[j][1]
    /\ {r[i][1] : i \in 1..Len(r)} = UNION {DOMAIN ords[o].items : o \in 1..Len(ords)}
    /\ \A i \in 1..Len(r) : r[i][2] = Ordered(ords, r[i][1])
    /\ \A i \in 1..(Len(r) - 1) : r[i][2] >= r[i + 1][2]

\* C16 as a contract of get_popular_products, on the orders of the current state
C16_Contract == IsPopularList(get_popular_products(orders), orders)

\* C16: get_popular_products returns one (product, count) pair per product name that
\* occurs in an order, count being the sum of that product's quantities over all
\* orders of every status, the pairs in non-increasing order of count.
C16_PopularProducts ==
    /\ []C16_Contract
    /\ [][Ran("get_popular_products", "done") =>
            /\ IsPopularList(last'.data, orders)
            /\ mem' = mem]_vars

\* C16 witness: an order that is not Completed holds two products in different
\* quantities, and the list names the larger one first
C16_Witness ==
    /\ last.op = "get_popular_products"
    /\ Len(last.data) = 2
    /\ last.data[1][2] > last.data[2][2]
    /\ \E o \in 1..Len(orders) :
          /\ orders[o].status # "Completed"
          /\ DOMAIN orders[o].items = {last.data[1][1], last.data[2][1]}

\* a float is >= 0 (NaN is not)
NonNegative(x) == LessEq(0, x)

\* C17, as stated: stock deduction never oversells. A create_order call or an
\* update-order submit that starts with every product quantity >= 0 ends with every
\* product quantity >= 0. The Update Order form takes the quantity "nan": float()
\* accepts it, neither `quantity <= 0' nor `product.quantity < quantity' is true of
\* it, and the stock becomes NaN.
C17_NeverOversells ==
    [][/\ last'.op \in {"create_order", "update_order"}
       /\ now' = now
       /\ \A i \in 1..Len(products) : NonNegative(products[i].quantity)
       => \A i \in 1..Len(products') : NonNegative(products'[i].quantity)]_vars

\* the text t is a positive number
PositiveNumber(t) == IsFloat(t) /\ Less(0, FloatText[t])

\* o is the first order with the id, p the first product with the name
IsFirstOrder(ords, o, id) ==
    o \in 1..Len(ords) /\ ords[o].order_id = id /\ \A j \in 1..(o - 1) : ords[j].order_id # id

IsFirstProduct(prods, p, n) ==
    p \in 1..Len(prods) /\ prods[p].name = n /\ \A j \in 1..(p - 1) : prods[j].name # n

\* C18: a successful update-order submit for (order_id, product, q) with q > 0 changes
\* exactly this: in the (first) order with that id the quantity of the product grows
\* by q, or is q when the order did not hold the product; the order's total grows by
\* the product's price times q; the (first) product of that name loses q of its stock;
\* the order's status becomes Updated whatever it was. Every other item, field, order
\* and product, and every ingredient and member of staff, is as it was.
C18_UpdateOrder ==
    [][last'.op = "update_order" /\ last'.ret = "done" /\ now' = now
       /\ PositiveNumber(last'.data[3]) =>
          \E o \in 1..Len(orders), p \in 1..Len(products) :
              LET q == FloatText[last'.data[3]]
                  n == last'.data[2]
              IN /\ IsFirstOrder(orders, o, last'.data[1])
                 /\ IsFirstProduct(products, p, n)
                 /\ Len(orders') = Len(orders) /\ Len(products') = Len(products)
                 /\ DOMAIN orders'[o].items = DOMAIN orders[o].items \cup {n}
                 /\ orders'[o].items[n] =
                        IF n \in DOMAIN orders[o].items THEN Add(orders[o].items[n], q) ELSE q
                 /\ \A m \in DOMAIN orders[o].items \ {n} : orders'[o].items[m] = orders[o].items[m]
                 /\ orders'[o].total = Add(orders[o].total, Mul(products[p].price, q))
                 /\ orders'[o].status = "Updated"
                 /\ orders'[o].order_id = orders[o].order_id
                 /\ orders'[o].customer_name = orders[o].customer_name
                 /\ orders'[o].timestamp = orders[o].timestamp
                 /\ \A i \in 1..Len(orders) : i # o => orders'[i] = orders[i]
                 /\ products'[p] = [products[p] EXCEPT !.quantity = Sub(products[p].quantity, q)]
                 /\ \A i \in 1..Len(products) : i # p => products'[i] = products[i]
                 /\ ingredients' = ingredients /\ staff' = staff]_vars

\* C18 witness: of two orders with the same id the first, which was Pending and held
\* the product, was updated
C18_Witness ==
    /\ last.op = "update_order" /\ last.ret = "done" /\ last.data[3] = "1"
    /\ Len(orders) = 2
    /\ orders[1].order_id = orders[2].order_id
    /\ orders[1].status = "Updated" /\ orders[2].status = "Pending"
    /\ orders[1].items = ("bread" :> 2)
    /\ orders[1].total = 2 * products[1].price
    /\ products[1].name = "bread" /\ products[1].quantity = 0

\* the entries f must be rejected in the state with orders ords and products prods
MustReject(f, ords, prods) ==
    \/ f[1] = "" \/ f[2] = "" \/ f[3] = ""
    \/ ~PositiveNumber(f[3])
    \/ \A o \in 1..Len(ords) : ords[o].order_id # f[1]
    \/ \A p \in 1..Len(prods) : prods[p].name # f[2]
    \/ \E p \in 1..Len(prods) : IsFirstProduct(prods, p, f[2]) /\ Less(prods[p].quantity, FloatText[f[3]])

\* C19, as stated: a rejected update-order submit only shows an error. When a field is
\* empty, the quantity is not a positive number, the order id matches no order, the
\* product name matches no product or the stock is below the quantity, no order, no
\* product and no file is changed. The quantity "nan" is not a positive number and is
\* not rejected.
C19_RejectedUpdate ==
    [][last'.op = "update_order" /\ now' = now /\ MustReject(last'.data, orders, products) =>
          /\ orders' = orders
          /\ products' = products
          /\ disk' = disk]_vars

\* C20, as stated: order ids are pairwise distinct, also for orders created within the
\* same clock second. The id is strftime("%Y%m%d%H%M%S") of the clock, so two orders
\* created in one second have the same id.
C20_DistinctIds ==
    \A i, j \in 1..Len(orders) : i # j => orders[i].order_id # orders[j].order_id

(* ---------------------------- Mark as Sold ----------------------------- *)
\* C21: Mark as Sold sets the status to Completed on exactly the orders whose rows the
\* user ticked in the Pending Orders view, each of which had status Pending; the status
\* of every other order, and the items and the total of every order, stay as they were
C21_MarksTheTicked ==
    [][Ran("mark_orders_complete", "done") =>
         /\ Len(orders') = Len(orders)
         /\ \A i \in 1..Len(orders) :
              /\ orders'[i].items = orders[i].items
              /\ orders'[i].total = orders[i].total
              /\ IF last'.data[i]
                 THEN orders[i].status = "Pending" /\ orders'[i].status = "Completed"
                 ELSE orders'[i].status = orders[i].status]_vars

\* the sum of the totals of the Completed orders: total_sales of the sales report and
\* Total Earnings of the earnings report
CompletedSum(ords) == total_sales(ords)

\* C22: a completed sale stays completed: in every step that deletes no order, an order
\* with status Completed keeps that status, and the sum of the totals of the Completed
\* orders does not decrease
C22_CompletedStays ==
    [][last'.op # "delete_order" /\ now' = now =>
         /\ Len(orders') >= Len(orders)
         /\ \A i \in 1..Len(orders) :
              orders[i].status = "Completed" => orders'[i].status = "Completed"
         /\ CompletedSum(orders') >= CompletedSum(orders)]_vars

\* C23: Updated is terminal: in every step that deletes no order, an order with status
\* Updated keeps that status, so it is never Completed and never counted in the sales
C23_UpdatedIsTerminal ==
    [][last'.op # "delete_order" /\ now' = now =>
         /\ Len(orders') >= Len(orders)
         /\ \A i \in 1..Len(orders) :
              orders[i].status = "Updated" => orders'[i].status = "Updated"]_vars

\* C24: an order's total stays consistent with its items: while no product price
\* changes, each order's total is the sum over its current items of price times quantity
C24_TotalMatchesItems ==
    \A i \in 1..Len(orders) : orders[i].total = ItemsValue(products, orders[i].items)

(* ---------------------------- stock ------------------------------------ *)
\* equality of floats: NaN equals nothing, itself included
Eq(a, b) == a # NaN /\ b # NaN /\ a = b

\* the quantity of product n summed over the first k orders
RECURSIVE OrderedUpTo(_, _, _)
OrderedUpTo(ords, n, k) ==
    IF k = 0 THEN 0
    ELSE Add(OrderedUpTo(ords, n, k - 1),
             IF n \in DOMAIN ords[k].items THEN ords[k].items[n] ELSE 0)

\* exactly one product is named n
UniqueName(prods, n) == Cardinality({i \in 1..Len(prods) : prods[i].name = n}) = 1

\* the current quantity of product n plus its quantities over all orders
Held(prods, ords, n) ==
    Add(prods[FirstNamed(prods, n)].quantity, OrderedUpTo(ords, n, Len(ords)))

\* C25: stock conservation: for a product with a unique name, a create-order or
\* update-order submit keeps its current quantity plus its quantities over all orders,
\* and adding a product or adding stock changes no order, so that the sum always
\* equals the initial quantity plus the stock additions
C25_StockConserved ==
    [][now' = now =>
         \A n \in {"bread", "cake"} :
            UniqueName(products, n) /\ UniqueName(products', n) =>
               IF last'.op \in {"submit_order", "create_order", "update_order"}
               THEN Eq(Held(products', orders', n), Held(products, orders, n))
               ELSE orders' = orders]_vars

\* C26: ordering never increases stock: after a create-order or an update-order submit
\* on quantity texts that parse as integers, each product's quantity is at most its
\* quantity before, a new order's total is not negative and no order's total decreased
C26_OrderingNeverAddsStock ==
    [][last'.op \in {"create_order", "update_order"} /\ now' = now =>
         /\ Len(products') = Len(products)
         /\ \A i \in 1..Len(products) : products'[i].quantity <= products[i].quantity
         /\ \A i \in 1..Len(orders') :
               orders'[i].total >= (IF i <= Len(orders) THEN orders[i].total ELSE 0)]_vars

(* ---------------------------- restocking ------------------------------- *)
\* after is before with the quantity of ingredient i raised by q and nothing else changed
Restocked(before, after, i, q) ==
    /\ Len(after) = Len(before)
    /\ \A k \in 1..Len(before) :
          after[k] = IF k = i THEN [before[k] EXCEPT !.quantity = before[k].quantity + q]
                     ELSE before[k]

\* C27 as a contract of restock_ingredient, in the current state, for every name and q
C27_Contract ==
    \A name \in {"flour", "sugar"}, q \in {1, 2} :
        LET r == restock_ingredient(ingredients, name, q)
            named == {i \in 1..Len(ingredients) : ingredients[i].name = name}
        IN IF named = {}
           THEN ~r.ret /\ r.ingredients = ingredients
           ELSE /\ r.ret
                /\ \E i \in named : /\ \A j \in named : i <= j
                                    /\ Restocked(ingredients, r.ingredients, i, q)

\* C27: restock_ingredient(name, q) returns False and changes nothing, with no save,
\* when no ingredient has that name; otherwise it returns True and raises the quantity
\* of exactly one ingredient, the first with that name, by q, and leaves every other
\* ingredient and every other collection unchanged
C27_Restock ==
    /\ []C27_Contract
    /\ [][/\ Ran("restock_ingredient", "False") =>
               /\ \A i \in 1..Len(ingredients) : ingredients[i].name # last'.data[1]
               /\ mem' = mem /\ disk' = disk /\ last'.saved = "none"
          /\ Ran("restock_ingredient", "True") =>
               /\ \E i \in 1..Len(ingredients) :
                     /\ ingredients[i].name = last'.data[1]
                     /\ \A j \in 1..(i - 1) : ingredients[j].name # last'.data[1]
                     /\ Restocked(ingredients, ingredients', i, last'.data[2])
               /\ products' = products /\ orders' = orders /\ staff' = staff]_vars

\* C27 witness: a restock went through with two ingredients of the restocked name in
\* the list, and only the first of them has the added quantity
C27_Witness ==
    /\ last.op = "restock_ingredient" /\ last.ret = "True" /\ last.saved = "ok"
    /\ Len(ingredients) = 2
    /\ ingredients[1].name = last.data[1] /\ ingredients[2].name = last.data[1]
    /\ ingredients[1].quantity = last.data[2] /\ ingredients[2].quantity = 0

(* ---------------------------- earnings --------------------------------- *)
\* the sum of the totals of the orders of S
TotalOf(ords, S) == Sum([i \in 1..Len(ords) |-> ords[i].total], S)

\* the Completed orders whose timestamp lies in the year of clock second clock
CompletedThisYear(ords, clock) ==
    {i \in 1..Len(ords) : ords[i].status = "Completed" /\ year(ords[i].timestamp) = year(clock)}

\* C28: in the Earnings report, Weekly Earnings and Monthly Earnings sum the totals of
\* exactly the Completed orders whose timestamp lies in the current ISO week,
\* respectively the current calendar month, of the current year
C28_EarningsOfThisYear ==
    [][Ran("earning", "done") =>
         /\ last'.data.weekly =
               TotalOf(orders, {i \in CompletedThisYear(orders, now) :
                                  isocalendar_week(orders[i].timestamp) = isocalendar_week(now)})
         /\ last'.data.monthly =
               TotalOf(orders, {i \in CompletedThisYear(orders, now) :
                                  month(orders[i].timestamp) = month(now)})]_vars
====
